---- MODULE Spec2Model ----
(***************************************************************************)
(* Model of the DIY Parca Agent core:                                      *)
(*   - fillProfile / mappingForAddr (the profiler), the profile assembly   *)
(*     pass over the BPF "counts" and "stack_traces" maps;                 *)
(*   - newSymbolizer / Addr2FuncName (cmd/addr2func), the symbol resolver. *)
(*                                                                         *)
(* Pointers are modelled as 1-based positions: a *profile.Mapping is a     *)
(* position in mm (0 is nil), a *profile.Location is a position in         *)
(* prof.Location. Go's 0-based slice indexes keep their Go values.         *)
(***************************************************************************)
EXTENDS Integers, Sequences, FiniteSets, TLC

VARIABLES
    counts,          \* the entries counts.Iterate() yields, in iteration order
    stackTraces,     \* the stack_traces map: stack id -> outcome of LookupBytes
    mm,              \* []*profile.Mapping handed to fillProfile
    it,              \* number of entries the iterator has yielded so far
    itErr,           \* it.Err() != nil once the iteration is over
    prof,            \* *profile.Profile: Mapping, Location and Sample lists
    locationIndices, \* map[locationIndex]int of the running pass
    origin,          \* history: origin[j] is the position in counts of the
                     \* entry that produced prof.Sample[j]
    mmIn,            \* history: mm as it was handed to fillProfile
    queried,         \* history: the stack ids passed to stackTraces.LookupBytes
                     \* so far, in call order
    pc,              \* "loop" inside the for loop, "done" after fillProfile
                     \* returned, "idle" when no pass is modelled
    elf,             \* the *elf.File: what f.Symbols() returns, and f.Progs
    args,            \* fileOffset and memoryStart given to newSymbolizer
    symbolizer,      \* the *symbolizer newSymbolizer returned, or Nil
    newErr,          \* the error newSymbolizer returned ("" is nil)
    query,           \* the last call of Addr2FuncName: addr and funcName
    spc              \* "new" before newSymbolizer, "ready" after it returned a
                     \* symbolizer, "resolved" once Addr2FuncName was called on
                     \* it, "failed" after newSymbolizer returned an error,
                     \* "idle" when no resolver is modelled

fillVars == <<counts, stackTraces, mm, it, itErr, prof, locationIndices, origin, mmIn,
              queried, pc>>
symVars == <<elf, args, symbolizer, newErr, query, spc>>
vars == <<fillVars, symVars>>

(***************************************************************************)
(* Program constants and model bounds                                      *)
(***************************************************************************)

\* Length of the stack_trace_type array. The source has stackDepth = 127
\* (MAX_STACK_DEPTH of the BPF program); the model explores shorter arrays.
stackDepth == 2

\* A stack trace value is an array of __u64: 8 bytes per address.
WordBytes == 8

\* The -pid argument of the run shown in the README.
pid == 15958

\* bpf_get_stackid() error shown in the README (-EFAULT).
ErrStackID == -14

\* Longest counts iteration explored.
MaxKeys == 2

(***************************************************************************)
(* Inputs: what the kernel side and /proc/<pid>/maps can hand over         *)
(***************************************************************************)

\* Addresses found in stack traces: 0 is padding, 1 lies in no mapping,
\* 3 lies inside the first mapping range, 4 is the limit of the first range
\* and the start of the second.
FrameAddrs == {0, 1, 3, 4}

\* Two adjacent ranges of /proc/<pid>/maps as profile.ParseProcMaps returns
\* them (ID still 0).
MapLow == [Start |-> 2, Limit |-> 4, ID |-> 0]
MapHigh == [Start |-> 4, Limit |-> 6, ID |-> 0]
MappingLists == {<<>>, <<MapLow>>, <<MapLow, MapHigh>>, <<MapHigh, MapLow>>}

\* stack_trace_type: frames followed by zero padding up to stackDepth.
Pad(frames) == [i \in 1..stackDepth |-> IF i <= Len(frames) THEN frames[i] ELSE 0]

\* Every content of a stack_trace_type array, also one with no zero and one
\* with frames after a zero.
RawStacks == [1..stackDepth -> FrameAddrs]

\* The 8 bytes of a __u64 as the (little-endian) kernel stores them.
PutUint64(w) == [b \in 1..WordBytes |->
                   IF b = 1 THEN w % 256
                   ELSE IF b = 2 THEN (w \div 256) % 256
                   ELSE IF b = 3 THEN (w \div 65536) % 256
                   ELSE IF b = 4 THEN (w \div 16777216) % 256
                   ELSE 0]

\* The value bytes of one stack_traces entry.
StackBytes(stack) ==
    [k \in 1..(Len(stack) * WordBytes) |->
        PutUint64(stack[((k - 1) \div WordBytes) + 1])[((k - 1) % WordBytes) + 1]]

\* Outcomes of ebpf.Map.LookupBytes: an error, or the value bytes; a key
\* that does not exist gives nil bytes and a nil error.
LookupFailed == [err |-> TRUE, bytes |-> <<>>]
KeyNotExist == [err |-> FALSE, bytes |-> <<>>]
Found(stack) == [err |-> FALSE, bytes |-> StackBytes(stack)]

\* The ids do_sample stores in a key: what bpf_get_stackid returned, an id
\* of the stack_traces map (>= 0) or a negative error.
UserStackIDs == {ErrStackID, 0, 2}
KernelStackIDs == {ErrStackID, 1}
StackIDs == UserStackIDs \cup KernelStackIDs

\* What the stack_traces map may answer for each id. The map holds entries
\* under the ids bpf_get_stackid returned on success only, so a lookup of
\* the negative id fails or misses; fillProfile hands every id to the map
\* as it is. Id 0 has every answer; id 2 is a second user stack that is
\* there to be read.
Outcomes(id) ==
    IF id < 0 THEN {LookupFailed, KeyNotExist}
    ELSE IF id = 0 THEN {LookupFailed, KeyNotExist} \cup {Found(s) : s \in RawStacks}
    ELSE IF id = 1 THEN {LookupFailed, KeyNotExist, Found(Pad(<<4>>))}
    ELSE {Found(Pad(<<4, 1>>))}

StackTraceTables ==
    {[id \in StackIDs |-> IF id = 0 THEN a ELSE IF id = 1 THEN b
                              ELSE IF id = 2 THEN c ELSE d] :
        a \in Outcomes(0), b \in Outcomes(1), c \in Outcomes(2), d \in Outcomes(ErrStackID)}

\* stack_count_key_t
Keys == [PID : {pid}, UserStackID : UserStackIDs, KernelStackID : KernelStackIDs]

\* The value of the counts map for a key (distinct per key).
Seen(key) ==
    (IF key.UserStackID < 0 THEN 1 ELSE IF key.UserStackID = 0 THEN 3 ELSE 5)
       + (IF key.KernelStackID < 0 THEN 0 ELSE 1)

\* Iterations of the counts hash map: distinct keys, any order.
Entries == {[key |-> k, seen |-> Seen(k)] : k \in Keys}

CountsIterations ==
    {c \in UNION {[1..n -> Entries] : n \in 0..MaxKeys} :
        \A i, j \in 1..Len(c) : i # j => c[i] # c[j]}

(***************************************************************************)
(* fillProfile                                                             *)
(***************************************************************************)

\* stackTraces.LookupBytes(id)
LookupBytes(table, id) == table[id]

\* binary.LittleEndian.Uint64 of the 8 bytes that follow offset off.
Uint64(bytes, off) ==
    bytes[off + 1] + 256 * (bytes[off + 2] + 256 * (bytes[off + 3] + 256 * (bytes[off + 4]
      + 256 * (bytes[off + 5] + 256 * (bytes[off + 6] + 256 * (bytes[off + 7]
      + 256 * bytes[off + 8]))))))

\* A read that leaves the stack zeroed and reports no error when the bytes
\* are too few.
binaryReadZeroFill(stackBytes) ==
    IF Len(stackBytes) < stackDepth * WordBytes
    THEN [err |-> FALSE, stack |-> [i \in 1..stackDepth |-> 0]]
    ELSE [err |-> FALSE,
          stack |-> [i \in 1..stackDepth |-> Uint64(stackBytes, (i - 1) * WordBytes)]]

\* binary.Read(bytes.NewBuffer(stackBytes), binary.LittleEndian, stack[:]):
\* fails (EOF, unexpected EOF) when fewer than stackDepth*8 bytes are there.
binaryRead(stackBytes) ==
    IF Len(stackBytes) < stackDepth * WordBytes
    THEN [err |-> TRUE, stack |-> <<>>]
    ELSE [err |-> FALSE,
          stack |-> [i \in 1..stackDepth |-> Uint64(stackBytes, (i - 1) * WordBytes)]]

\* mappingForAddr: the first mapping with Start <= addr <= Limit, or nil (0).
RECURSIVE mappingScan(_, _, _)
mappingScan(mapping, addr, i) ==
    IF i > Len(mapping) THEN 0
    ELSE IF mapping[i].Start <= addr /\ mapping[i].Limit >= addr THEN i
    ELSE mappingScan(mapping, addr, i + 1)

mappingForAddr(mapping, addr) == mappingScan(mapping, addr, 1)

\* AddFrame with the locationIndices lookup always missing.
AddFrameNoLookup(acc, mapping, addr) ==
    IF addr = 0 THEN acc
    ELSE LET locIndex == Len(acc.Location)
             locKey == [PID |-> pid, Addr |-> addr]
         IN [Location |-> Append(acc.Location,
                                 [ID |-> locIndex + 1, Address |-> addr,
                                  Mapping |-> mappingForAddr(mapping, addr)]),
             locationIndices |->
                 [k \in DOMAIN acc.locationIndices \cup {locKey} |->
                     IF k = locKey THEN locIndex ELSE acc.locationIndices[k]],
             sampleLocations |-> Append(acc.sampleLocations, locIndex + 1)]

\* AddFrame that leaves out an address mappingForAddr finds no mapping for.
AddFrameSkipUnmapped(acc, mapping, addr) ==
    IF addr = 0 \/ mappingForAddr(mapping, addr) = 0 THEN acc
    ELSE LET locKey == [PID |-> pid, Addr |-> addr]
             locIndex == IF locKey \in DOMAIN acc.locationIndices
                         THEN acc.locationIndices[locKey] ELSE Len(acc.Location)
         IN [Location |-> IF locKey \in DOMAIN acc.locationIndices THEN acc.Location
                          ELSE Append(acc.Location,
                                      [ID |-> locIndex + 1, Address |-> addr,
                                       Mapping |-> mappingForAddr(mapping, addr)]),
             locationIndices |->
                 [k \in DOMAIN acc.locationIndices \cup {locKey} |->
                     IF k = locKey THEN locIndex ELSE acc.locationIndices[k]],
             sampleLocations |-> Append(acc.sampleLocations, locIndex + 1)]

\* A loop that leaves a frame out of the sample when its Location is already
\* in the profile.
AddFrameSkipFound(acc, mapping, addr) ==
    IF addr = 0 \/ [PID |-> pid, Addr |-> addr] \in DOMAIN acc.locationIndices THEN acc
    ELSE LET locIndex == Len(acc.Location)
             locKey == [PID |-> pid, Addr |-> addr]
         IN [Location |-> Append(acc.Location,
                                 [ID |-> locIndex + 1, Address |-> addr,
                                  Mapping |-> mappingForAddr(mapping, addr)]),
             locationIndices |->
                 [k \in DOMAIN acc.locationIndices \cup {locKey} |->
                     IF k = locKey THEN locIndex ELSE acc.locationIndices[k]],
             sampleLocations |-> Append(acc.sampleLocations, locIndex + 1)]

\* One turn of "for _, addr := range userStack": acc holds prof.Location,
\* locationIndices and sampleLocations.
AddFrame(acc, mapping, addr) ==
    IF addr = 0 THEN acc
    ELSE
      LET locKey == [PID |-> pid, Addr |-> addr]
          found == locKey \in DOMAIN acc.locationIndices
      IN IF found
         THEN [acc EXCEPT !.sampleLocations =
                  Append(@, acc.locationIndices[locKey] + 1)]
         ELSE
           LET m == mappingForAddr(mapping, addr)
               locIndex == Len(acc.Location)
           IN [Location |-> Append(acc.Location,
                                   [ID |-> locIndex + 1, Address |-> addr, Mapping |-> m]),
               locationIndices |->
                   [k \in DOMAIN acc.locationIndices \cup {locKey} |->
                       IF k = locKey THEN locIndex ELSE acc.locationIndices[k]],
               sampleLocations |-> Append(acc.sampleLocations, locIndex + 1)]

RECURSIVE CollectFrames(_, _, _, _)
CollectFrames(acc, mapping, userStack, i) ==
    IF i > Len(userStack) THEN acc
    ELSE CollectFrames(AddFrame(acc, mapping, userStack[i]), mapping, userStack, i + 1)

\* The body of "for it.Next(&key, &seen)" for one entry. st holds prof and
\* locationIndices; the result adds emitted: whether a Sample was appended,
\* and lookups: the stack ids it passed to LookupBytes.
LoopBody(st, table, mapping, key, seen) ==
    LET skip == [prof |-> st.prof, locationIndices |-> st.locationIndices,
                 emitted |-> FALSE, lookups |-> <<key.UserStackID>>]
        user == LookupBytes(table, key.UserStackID)
        userRead == binaryRead(user.bytes)
        kernel == LookupBytes(table, key.KernelStackID)
    IN IF user.err THEN skip
       ELSE IF userRead.err THEN skip
       ELSE IF kernel.err
            THEN [skip EXCEPT !.lookups = <<key.UserStackID, key.KernelStackID>>]
       ELSE
         LET acc == CollectFrames([Location |-> st.prof.Location,
                                   locationIndices |-> st.locationIndices,
                                   sampleLocations |-> <<>>],
                                  mapping, userRead.stack, 1)
         IN [prof |-> [st.prof EXCEPT
                         !.Location = acc.Location,
                         !.Sample = Append(@, [Value |-> <<seen>>,
                                               Location |-> acc.sampleLocations])],
             locationIndices |-> acc.locationIndices,
             emitted |-> TRUE,
             lookups |-> <<key.UserStackID, key.KernelStackID>>]

\* The whole "for it.Next(&key, &seen)" loop over the entries in the order
\* the iterator yields them, from entry i on.
RECURSIVE passFrom(_, _, _, _, _)
passFrom(st, entries, table, mapping, i) ==
    IF i > Len(entries) THEN st
    ELSE LET r == LoopBody(st, table, mapping, entries[i].key, entries[i].seen)
         IN passFrom([prof |-> r.prof, locationIndices |-> r.locationIndices],
                     entries, table, mapping, i + 1)

\* The profile fillProfile builds from an empty one when the iterator yields
\* entries and reports no error (prof.Mapping is attached afterwards).
RunPass(entries, table, mapping) ==
    passFrom([prof |-> [Mapping |-> <<>>, Location |-> <<>>, Sample |-> <<>>],
              locationIndices |-> [k \in {} |-> 0]],
             entries, table, mapping, 1).prof

\* Ids that start with 0, the index itself.
AssignMappingIDsFromZero(mapping) ==
    [i \in 1..Len(mapping) |-> [mapping[i] EXCEPT !.ID = i - 1]]

\* "for i, m := range mm { m.ID = uint64(i + 1) }"
AssignMappingIDs(mapping) == [i \in 1..Len(mapping) |-> [mapping[i] EXCEPT !.ID = i]]

Nil == "nil"

SymIdle ==
    /\ elf = Nil
    /\ args = Nil
    /\ symbolizer = Nil
    /\ newErr = ""
    /\ query = Nil
    /\ spc = "idle"

Init ==
    /\ counts \in CountsIterations
    /\ stackTraces \in StackTraceTables
    /\ mm \in MappingLists
    /\ mmIn = mm
    /\ SymIdle
    /\ it = 0
    /\ itErr = FALSE
    /\ prof = [Mapping |-> <<>>, Location |-> <<>>, Sample |-> <<>>]
    /\ locationIndices = [k \in {} |-> 0]
    /\ origin = <<>>
    /\ queried = <<>>
    /\ pc = "loop"

\* A loop whose failure branches return instead of continuing.
NextKeyReturnOnFailure ==
    /\ pc = "loop"
    /\ it < Len(counts)
    /\ LET r == LoopBody([prof |-> prof, locationIndices |-> locationIndices],
                         stackTraces, mm, counts[it + 1].key, counts[it + 1].seen)
       IN /\ prof' = r.prof
          /\ locationIndices' = r.locationIndices
          /\ origin' = IF r.emitted THEN Append(origin, it + 1) ELSE origin
          /\ queried' = queried \o r.lookups
          /\ pc' = IF r.emitted THEN "loop" ELSE "done"
    /\ it' = it + 1
    /\ UNCHANGED <<counts, stackTraces, mm, itErr, mmIn, symVars>>

\* it.Next returned true: one turn of the loop.
NextKey ==
    /\ pc = "loop"
    /\ it < Len(counts)
    /\ LET r == LoopBody([prof |-> prof, locationIndices |-> locationIndices],
                         stackTraces, mm, counts[it + 1].key, counts[it + 1].seen)
       IN /\ prof' = r.prof
          /\ locationIndices' = r.locationIndices
          /\ origin' = IF r.emitted THEN Append(origin, it + 1) ELSE origin
          /\ queried' = queried \o r.lookups
    /\ it' = it + 1
    /\ UNCHANGED <<counts, stackTraces, mm, itErr, mmIn, pc, symVars>>

\* it.Next returned false: the iteration is over, with an error (possibly
\* before every entry was yielded) or without one; the mappings get their ids
\* and are attached to the profile.
Finish(failed) ==
    /\ pc = "loop"
    /\ failed \/ it = Len(counts)
    /\ itErr' = failed
    /\ mm' = AssignMappingIDs(mm)
    /\ prof' = [prof EXCEPT !.Mapping = AssignMappingIDs(mm)]
    /\ pc' = "done"
    /\ UNCHANGED <<counts, stackTraces, it, locationIndices, origin, mmIn, queried, symVars>>

IterEnd == Finish(FALSE)

IterErr == Finish(TRUE)

Next == NextKey \/ IterEnd \/ IterErr

Spec == Init /\ [][Next]_vars

(***************************************************************************)
(* addr2func: newSymbolizer and Addr2FuncName                              *)
(***************************************************************************)

\* Addresses are uint64 in the source. The model keeps the wrap-around of
\* unsigned arithmetic on AddrBits bits.
AddrBits == 23
Modulus == 2 ^ AddrBits

\* elf.PT_LOAD; the zero elf.ProgHeader has Type elf.PT_NULL.
PT_NULL == 0
PT_LOAD == 1

\* The types of the headers that are not loadable: elf.PT_NOTE.
NotLoadable == {4}

\* Most symbols of a .symtab explored.
MaxSymbols == 3

\* notfound := "?"
notfound == "?"

\* Symbol values explored: 0 (undefined and file symbols) and two addresses.
SymbolValues == {0, 2, 4}
SymbolNames == <<"main", "fibNaive", "frame_dummy", "_start", "_init", "_fini">>

\* The symbols of .symtab in file order.
SymbolTables ==
    {[i \in 1..n |-> [Name |-> SymbolNames[i], Value |-> v[i]]] :
        n \in 0..MaxSymbols, v \in [1..MaxSymbols -> SymbolValues]}

\* f.Progs: program headers with offset 0 or 2, loadable or not, PIE or not.
ProgHeaders ==
    [Type : {PT_LOAD} \cup NotLoadable, Off : {2}, Vaddr : {2, 6}]
ProgLists ==
    {<<>>} \cup {<<p>> : p \in ProgHeaders}
           \cup {<<p, q>> : p \in [Type : NotLoadable, Off : {2}, Vaddr : {2}],
                            q \in [Type : {PT_LOAD}, Off : {2}, Vaddr : {2, 6}]}
           \cup {<<[Type |-> PT_LOAD, Off |-> 0, Vaddr |-> 0],
                   [Type |-> PT_LOAD, Off |-> 2, Vaddr |-> 2]>>}

FileOffsets == {0, 2}
MemoryStarts == {0, 1, 5}
SampledAddrs == 0..8 \cup {Modulus - 1}

\* The *elf.File: what f.Symbols() returns (the symbols, or an error when
\* the file has no symbol section) and f.Progs.
ElfFiles ==
    {[Symbols |-> t, SymbolsErr |-> FALSE, Progs |-> p] : t \in SymbolTables, p \in ProgLists}
    \cup {[Symbols |-> <<>>, SymbolsErr |-> TRUE, Progs |-> p] : p \in ProgLists}

\* The resolver of the documented scenario: {main: 0x1000, fib: 0x1010},
\* fileOffset 0x1000, memoryStart 0x401000, segment.Vaddr == segment.Off.
ScenarioElf ==
    [Symbols |-> <<[Name |-> "fib", Value |-> 4112], [Name |-> "main", Value |-> 4096]>>,
     SymbolsErr |-> FALSE,
     Progs |-> <<[Type |-> PT_LOAD, Off |-> 4096, Vaddr |-> 4096]>>]
ScenarioArgs == [fileOffset |-> 4096, memoryStart |-> 4198400]
ScenarioAddrs == {4198416, 4198432, 4198399}

\* A sort that is not stable: x goes in front of the elements equal to it.
RECURSIVE insertUnstable(_, _, _)
insertUnstable(sorted, x, i) ==
    IF i > Len(sorted) THEN Append(sorted, x)
    ELSE IF x.Value <= sorted[i].Value
         THEN SubSeq(sorted, 1, i - 1) \o <<x>> \o SubSeq(sorted, i, Len(sorted))
         ELSE insertUnstable(sorted, x, i + 1)

RECURSIVE sortUnstableFrom(_, _, _)
sortUnstableFrom(symbols, sorted, i) ==
    IF i > Len(symbols) THEN sorted
    ELSE sortUnstableFrom(symbols, insertUnstable(sorted, symbols[i], 1), i + 1)

SliceUnstable(symbols) == sortUnstableFrom(symbols, <<>>, 1)

\* sort.SliceStable(symbols, func(i, j) { symbols[i].Value < symbols[j].Value }):
\* insertion of x behind every element that is not greater than x.
RECURSIVE insertStable(_, _, _)
insertStable(sorted, x, i) ==
    IF i > Len(sorted) THEN Append(sorted, x)
    ELSE IF x.Value < sorted[i].Value
         THEN SubSeq(sorted, 1, i - 1) \o <<x>> \o SubSeq(sorted, i, Len(sorted))
         ELSE insertStable(sorted, x, i + 1)

RECURSIVE sortFrom(_, _, _)
sortFrom(symbols, sorted, i) ==
    IF i > Len(symbols) THEN sorted
    ELSE sortFrom(symbols, insertStable(sorted, symbols[i], 1), i + 1)

SliceStable(symbols) == sortFrom(symbols, <<>>, 1)

\* "for i := range f.Progs { if f.Progs[i].Off == fileOffset { ...; break } }":
\* the first header at fileOffset, or the zero ProgHeader.
RECURSIVE findSegment(_, _, _)
findSegment(progs, fileOffset, i) ==
    IF i > Len(progs) THEN [Type |-> PT_NULL, Off |-> 0, Vaddr |-> 0]
    ELSE IF progs[i].Off = fileOffset THEN progs[i]
    ELSE findSegment(progs, fileOffset, i + 1)

\* newSymbolizer(f, fileOffset, memoryStart): the symbolizer and the error.
newSymbolizer(f, fileOffset, memoryStart) ==
    IF f.SymbolsErr
    THEN [s |-> Nil, err |-> "failed to get symbols"]
    ELSE
      LET symbols == SliceStable(f.Symbols)
          segment == findSegment(f.Progs, fileOffset, 1)
      IN IF segment.Type # PT_LOAD
         THEN [s |-> Nil, err |-> "loadable segment not found"]
         ELSE [s |-> [symbols |-> symbols,
                      segmentOffset |-> segment.Off,
                      memoryStart |-> memoryStart,
                      isPIE |-> (segment.Vaddr = segment.Off)],
               err |-> ""]

\* sort.Search(n, f): binary search for the smallest index in [0, n) at
\* which symbols[i].Value >= addr (n when there is none). Indexes are Go's.
RECURSIVE searchLoop(_, _, _, _)
searchLoop(symbols, addr, i, j) ==
    IF i >= j THEN i
    ELSE LET h == (i + j) \div 2
         IN IF ~(symbols[h + 1].Value >= addr)
            THEN searchLoop(symbols, addr, h + 1, j)
            ELSE searchLoop(symbols, addr, i, h)

Search(symbols, addr) == searchLoop(symbols, addr, 0, Len(symbols))

\* The distance from memoryStart alone, the segment offset forgotten.
adjustNoOffset(r, addr) == (addr - r.memoryStart) % Modulus

\* "addr = s.segmentOffset + (addr - s.memoryStart)" in uint64 arithmetic.
adjust(r, addr) == (r.segmentOffset + (addr - r.memoryStart)) % Modulus

\* A lookup that credits an address between two symbols to the symbol
\* that follows it.
lookupSymbolFollowing(symbols, addr) ==
    LET i == Search(symbols, addr)
    IN IF i >= Len(symbols) THEN notfound ELSE symbols[i + 1].Name

\* The tail of Addr2FuncName, from sort.Search on.
lookupSymbol(symbols, addr) ==
    LET i == Search(symbols, addr)
    IN IF i >= Len(symbols) THEN notfound
       ELSE IF symbols[i + 1].Value = addr THEN symbols[i + 1].Name
       ELSE IF i >= 1 /\ symbols[i].Value > 0 THEN symbols[i].Name
       ELSE notfound

\* (s *symbolizer) Addr2FuncName(addr)
Addr2FuncName(r, addr) ==
    IF addr = 0 THEN notfound
    ELSE IF r.isPIE
         THEN IF addr < r.memoryStart THEN notfound
              ELSE lookupSymbol(r.symbols, adjust(r, addr))
         ELSE lookupSymbol(r.symbols, addr)

FillIdle ==
    /\ counts = <<>>
    /\ stackTraces = Nil
    /\ mm = <<>>
    /\ mmIn = <<>>
    /\ it = 0
    /\ itErr = FALSE
    /\ prof = Nil
    /\ locationIndices = Nil
    /\ origin = <<>>
    /\ queried = <<>>
    /\ pc = "idle"

SymInit ==
    /\ \/ /\ elf \in ElfFiles
          /\ args \in [fileOffset : FileOffsets, memoryStart : MemoryStarts]
       \/ /\ elf = ScenarioElf
          /\ args = ScenarioArgs
    /\ symbolizer = Nil
    /\ newErr = ""
    /\ query = Nil
    /\ spc = "new"
    /\ FillIdle

\* main calls newSymbolizer(f, *fileOffset, *memoryStart).
NewSymbolizer ==
    /\ spc = "new"
    /\ LET r == newSymbolizer(elf, args.fileOffset, args.memoryStart)
       IN /\ symbolizer' = r.s
          /\ newErr' = r.err
          /\ spc' = IF r.err = "" THEN "ready" ELSE "failed"
    /\ UNCHANGED <<elf, args, query, fillVars>>

\* A call s.Addr2FuncName(addr) on the symbolizer.
Resolve ==
    /\ spc \in {"ready", "resolved"}
    /\ \E addr \in SampledAddrs \cup ScenarioAddrs :
          query' = [addr |-> addr, funcName |-> Addr2FuncName(symbolizer, addr)]
    /\ spc' = "resolved"
    /\ UNCHANGED <<elf, args, symbolizer, newErr, fillVars>>

SymNext == NewSymbolizer \/ Resolve

SymSpec == SymInit /\ [][SymNext]_vars

(***************************************************************************)
(* Properties of fillProfile (checked under Spec)                          *)
(***************************************************************************)

\* The user stack of the i-th entry of the iteration, as fillProfile reads it.
UserLookup(i) == LookupBytes(stackTraces, counts[i].key.UserStackID)
UserRead(i) == binaryRead(UserLookup(i).bytes)
UserStackRead(i) == ~UserLookup(i).err /\ ~UserRead(i).err

\* The entries of a raw stack that precede its first zero.
ValidFrames(stack) ==
    LET zeros == {i \in 1..Len(stack) : stack[i] = 0}
        end == IF zeros = {} THEN Len(stack)
               ELSE (CHOOSE i \in zeros : \A k \in zeros : i <= k) - 1
    IN SubSeq(stack, 1, end)

Samples == 1..Len(prof.Sample)
SamplesOf(i) == {j \in Samples : origin[j] = i}
LocationOf(j, n) == prof.Location[prof.Sample[j].Location[n]]
SampleAddrs(j) == [n \in 1..Len(prof.Sample[j].Location) |-> LocationOf(j, n).Address]

\* No mapping of the supplied list has Start <= addr <= Limit.
NoMappingContains(addr) ==
    \A i \in 1..Len(mmIn) : addr < mmIn[i].Start \/ addr > mmIn[i].Limit

\* C1. Dedup law: the Location list never holds two entries for the same
\* (pid, address) pair, every Location has its position as id, and two
\* sample frames with the same address reference the same Location, hence
\* the same id.
DedupLaw ==
    /\ \A a, b \in 1..Len(prof.Location) :
          prof.Location[a].Address = prof.Location[b].Address => a = b
    /\ \A a \in 1..Len(prof.Location) : prof.Location[a].ID = a
    /\ \A j1, j2 \in Samples :
          \A n1 \in 1..Len(prof.Sample[j1].Location), n2 \in 1..Len(prof.Sample[j2].Location) :
             LocationOf(j1, n1).Address = LocationOf(j2, n2).Address
                => /\ prof.Sample[j1].Location[n1] = prof.Sample[j2].Location[n2]
                   /\ LocationOf(j1, n1).ID = LocationOf(j2, n2).ID

\* Two different samples reference one Location.
DedupWitness ==
    \E j1, j2 \in Samples :
       /\ j1 # j2
       /\ \E n1 \in 1..Len(prof.Sample[j1].Location), n2 \in 1..Len(prof.Sample[j2].Location) :
             prof.Sample[j1].Location[n1] = prof.Sample[j2].Location[n2]

\* C2. The addresses of every emitted Sample are, in order, exactly the
\* entries of its raw user stack that precede the first zero.
SampleStopsAtFirstZero ==
    \A j \in Samples : SampleAddrs(j) = ValidFrames(UserRead(origin[j]).stack)

\* C3. Every processed entry whose user stack was looked up and decoded has
\* exactly one Sample, with the entry's count, whatever happened to the
\* kernel-stack lookup and decode.
KernelFailureKeepsSample ==
    \A i \in 1..it :
       UserStackRead(i) =>
          /\ Cardinality(SamplesOf(i)) = 1
          /\ \A j \in SamplesOf(i) : prof.Sample[j].Value = <<counts[i].seen>>

\* C4. The turn of the loop for an entry with a negative userStackID
\* appends no Sample and creates no Location, whatever the stack-trace
\* table holds, and leaves the pass in the loop, one entry further.
NegativeUserStackIDSkipped ==
    [][(pc = "loop" /\ it' = it + 1 /\ counts[it + 1].key.UserStackID < 0) =>
          /\ prof' = prof
          /\ locationIndices' = locationIndices
          /\ origin' = origin
          /\ pc' = "loop"]_vars

\* An entry with a negative userStackID was processed, and an entry after
\* it produced a Sample.
NegativeUserStackIDWitness ==
    \E i \in 1..it :
        /\ counts[i].key.UserStackID < 0
        /\ \E j \in (i + 1)..it : SamplesOf(j) # {} /\ Len(prof.Location) > 0

\* C5. Mapping-id law: once fillProfile has returned, also after an
\* iteration error, prof.Mapping is the supplied list in its order and the
\* i-th mapping has id i.
MappingIdLaw ==
    pc = "done" =>
       /\ Len(prof.Mapping) = Len(mmIn)
       /\ \A i \in 1..Len(mmIn) :
             /\ prof.Mapping[i].Start = mmIn[i].Start
             /\ prof.Mapping[i].Limit = mmIn[i].Limit
             /\ prof.Mapping[i].ID = i
       /\ mm = prof.Mapping

\* fillProfile returned after an iteration that an error cut short, with
\* two mappings to number.
MappingIdWitness ==
    pc = "done" /\ itErr /\ it < Len(counts) /\ Len(prof.Mapping) = 2

\* C6. In every emitted Sample, a frame before the first zero of the raw
\* user stack whose address no mapping contains has, at the frame's
\* position, a Location with that address, no mapping and a positive id.
UnmappedStillLocated ==
    \A j \in Samples :
       LET valid == ValidFrames(UserRead(origin[j]).stack)
       IN \A n \in 1..Len(valid) :
             NoMappingContains(valid[n]) =>
                /\ n <= Len(prof.Sample[j].Location)
                /\ LocationOf(j, n).Address = valid[n]
                /\ LocationOf(j, n).Mapping = 0
                /\ LocationOf(j, n).ID > 0

\* A Sample whose second frame lies in no mapping of a non-empty list and
\* whose first frame lies in one.
UnmappedWitness ==
    \E j \in Samples :
       /\ Len(mmIn) > 0
       /\ Len(prof.Sample[j].Location) = 2
       /\ LocationOf(j, 1).Mapping # 0
       /\ LocationOf(j, 2).Mapping = 0
       /\ NoMappingContains(LocationOf(j, 2).Address)

\* C7. A failure on one entry never ends the pass: fillProfile returns only
\* after the iterator is exhausted (or reported an error), every entry the
\* iterator yielded before was taken through the loop, and fillProfile
\* returns with the mapping ids assigned and the Mapping list attached.
PassNeverAborts ==
    /\ pc \in {"loop", "done"}
    /\ it <= Len(counts)
    /\ pc = "done" =>
          /\ itErr \/ it = Len(counts)
          /\ Len(prof.Mapping) = Len(mmIn)
          /\ \A i \in 1..Len(mmIn) : prof.Mapping[i].ID = i

\* The pass is over without an iteration error; an entry gave no Sample and
\* a later one did.
PassContinuesWitness ==
    /\ pc = "done" /\ ~itErr /\ Len(mmIn) > 0
    /\ \E i1, i2 \in 1..it : i1 < i2 /\ SamplesOf(i1) = {} /\ SamplesOf(i2) # {}

(***************************************************************************)
(* Properties of Addr2FuncName (checked under SymSpec)                     *)
(***************************************************************************)

\* The call reaches sort.Search: the address is not 0 and, on a PIE
\* resolver, not below memoryStart.
ReachesSearch == query.addr # 0 /\ (symbolizer.isPIE => query.addr >= symbolizer.memoryStart)

\* The address the symbol table is searched for.
Searched ==
    IF symbolizer.isPIE
    THEN (args.fileOffset + (query.addr - args.memoryStart)) % Modulus
    ELSE query.addr

\* The search as the design describes it: the first entry of the sorted
\* table with value >= t decides.
SearchResult(symbols, t) ==
    LET above == {i \in 1..Len(symbols) : symbols[i].Value >= t}
        first == CHOOSE i \in above : \A k \in above : i <= k
    IN IF above = {} THEN notfound
       ELSE IF symbols[first].Value = t THEN symbols[first].Name
       ELSE IF first > 1 /\ symbols[first - 1].Value # 0 THEN symbols[first - 1].Name
       ELSE notfound

\* C8. Enclosing-function law: when the searched address lies strictly
\* between two neighbours S and T of the sorted table and S.value # 0, the
\* result is S.name.
EnclosingFunctionLaw ==
    (spc = "resolved" /\ ReachesSearch) =>
       \A j \in 1..(Len(symbolizer.symbols) - 1) :
          ( /\ symbolizer.symbols[j].Value < Searched
            /\ Searched < symbolizer.symbols[j + 1].Value
            /\ symbolizer.symbols[j].Value # 0 )
          => query.funcName = symbolizer.symbols[j].Name

\* A PIE resolver resolved a translated address between two symbols.
EnclosingFunctionWitness ==
    /\ spc = "resolved" /\ ReachesSearch /\ symbolizer.isPIE
    /\ args.memoryStart > 0
    /\ \E j \in 1..(Len(symbolizer.symbols) - 1) :
          /\ symbolizer.symbols[j].Value < Searched
          /\ Searched < symbolizer.symbols[j + 1].Value
          /\ symbolizer.symbols[j].Value # 0
          /\ query.funcName = symbolizer.symbols[j].Name

\* C9 as stated. Exact-hit law for every symbol: each symbol of the table
\* whose non-zero value is the searched address has its name returned.
ExactHitEverySymbol ==
    (spc = "resolved" /\ ReachesSearch) =>
       \A k \in 1..Len(elf.Symbols) :
          (elf.Symbols[k].Value # 0 /\ elf.Symbols[k].Value = Searched)
             => query.funcName = elf.Symbols[k].Name

\* C9 amended. When symbols have the searched non-zero address as value,
\* the result is the name of the first of them in the symbol table's order
\* (the stable sort keeps it first among its equals).
ExactHitFirstSymbol ==
    (spc = "resolved" /\ ReachesSearch) =>
       LET hits == {k \in 1..Len(elf.Symbols) :
                       elf.Symbols[k].Value # 0 /\ elf.Symbols[k].Value = Searched}
       IN hits # {} =>
             query.funcName = elf.Symbols[CHOOSE k \in hits : \A h \in hits : k <= h].Name

\* Two symbols share the searched address and the first one's name came back.
ExactHitWitness ==
    /\ spc = "resolved" /\ ReachesSearch
    /\ \E k1, k2 \in 1..Len(elf.Symbols) :
          /\ k1 < k2
          /\ elf.Symbols[k1].Value = Searched /\ elf.Symbols[k2].Value = Searched
          /\ Searched # 0
          /\ query.funcName = elf.Symbols[k1].Name
          /\ query.funcName # elf.Symbols[k2].Name

\* The documented scenario: 0x401010 resolves to fib, 0x401020 to unknown.
ScenarioHolds ==
    (elf = ScenarioElf /\ args = ScenarioArgs) =>
       /\ symbolizer.isPIE
       /\ query.addr = 4198416 => query.funcName = "fib"
       /\ query.addr = 4198432 => query.funcName = notfound

\* C10 as stated. On a PIE resolver every address below memoryStart is
\* unknown and every address a >= memoryStart resolves as the search for
\* fileOffset + (a - memoryStart) does; the scenario gives fib and unknown.
PieTranslationLaw ==
    (spc = "resolved" /\ symbolizer.isPIE) =>
       /\ query.addr < args.memoryStart => query.funcName = notfound
       /\ query.addr >= args.memoryStart =>
             query.funcName = SearchResult(symbolizer.symbols, Searched)
       /\ ScenarioHolds

\* C10 amended. The same, for every address a >= memoryStart other than 0
\* (address 0 is unknown before any translation).
PieTranslationLawNonZero ==
    (spc = "resolved" /\ symbolizer.isPIE) =>
       /\ query.addr < args.memoryStart => query.funcName = notfound
       /\ (query.addr >= args.memoryStart /\ query.addr # 0) =>
             query.funcName = SearchResult(symbolizer.symbols, Searched)
       /\ query.addr = 0 => query.funcName = notfound
       /\ ScenarioHolds

\* The scenario's resolver resolved 0x401010 to fib.
PieTranslationWitness ==
    /\ spc = "resolved" /\ elf = ScenarioElf /\ args = ScenarioArgs
    /\ query.addr = 4198416 /\ query.funcName = "fib"

\* C11. With the symbols read, newSymbolizer succeeds exactly when f.Progs
\* holds a loadable header whose offset is fileOffset; it then takes
\* segmentOffset and isPIE from such a header, and otherwise returns the
\* segment-not-found error and no symbolizer.
LoadableSegmentFound ==
    (spc \in {"ready", "resolved", "failed"} /\ ~elf.SymbolsErr) =>
       LET loadable == {i \in 1..Len(elf.Progs) :
                           elf.Progs[i].Type = PT_LOAD /\ elf.Progs[i].Off = args.fileOffset}
       IN /\ (spc # "failed") <=> (loadable # {})
          /\ spc # "failed" =>
                \E i \in loadable :
                   /\ symbolizer.segmentOffset = elf.Progs[i].Off
                   /\ symbolizer.isPIE = (elf.Progs[i].Vaddr = elf.Progs[i].Off)
          /\ spc = "failed" => newErr = "loadable segment not found"

\* The orders in which an iteration can yield the entries of a counts table.
IterationOrders(entries) ==
    LET n == Len(entries)
    IN {[i \in 1..n |-> entries[f[i]]] :
           f \in {g \in [1..n -> 1..n] : \A a, b \in 1..n : a # b => g[a] # g[b]}}

\* A Sample as its count and its ordered sequence of (address, mapping).
SampleView(p, j) ==
    [count |-> p.Sample[j].Value[1],
     frames |-> [n \in 1..Len(p.Sample[j].Location) |->
                    <<p.Location[p.Sample[j].Location[n]].Address,
                      p.Location[p.Sample[j].Location[n]].Mapping>>]]

\* The multiset of the Samples of a profile: each view with its multiplicity.
SampleBag(p) ==
    LET views == {SampleView(p, j) : j \in 1..Len(p.Sample)}
    IN [v \in views |-> Cardinality({j \in 1..Len(p.Sample) : SampleView(p, j) = v})]

\* The Locations of a profile as (address, mapping).
LocationSet(p) == {<<p.Location[a].Address, p.Location[a].Mapping>> : a \in 1..Len(p.Location)}

\* C12. Order independence: a pass that iterated the whole counts table has
\* the same multiset of Samples (count plus ordered (address, mapping)
\* sequence) and the same set of (address, mapping) Locations as a pass over
\* the same table, stack traces and mappings in any other iteration order.
OrderIndependence ==
    (pc = "done" /\ ~itErr) =>
        \A other \in IterationOrders(counts) :
            LET q == RunPass(other, stackTraces, mmIn)
            IN /\ SampleBag(prof) = SampleBag(q)
               /\ LocationSet(prof) = LocationSet(q)

\* Two entries produced Samples with different frames, and the other order
\* gives another Sample list, another Location list and other Location ids.
OrderIndependenceWitness ==
    /\ pc = "done" /\ ~itErr
    /\ Len(counts) = 2 /\ Len(prof.Sample) = 2
    /\ Len(prof.Sample[1].Location) > 0 /\ Len(prof.Sample[2].Location) > 0
    /\ LET q == RunPass(<<counts[2], counts[1]>>, stackTraces, mmIn)
       IN /\ q.Sample # prof.Sample
          /\ q.Location # prof.Location
          /\ \E a \in 1..Len(prof.Location), b \in 1..Len(q.Location) :
                /\ prof.Location[a].Address = q.Location[b].Address
                /\ prof.Location[a].ID # q.Location[b].ID

\* C13. The stack-trace table is never queried with a negative stack id:
\* every id passed to LookupBytes during the pass is >= 0.
NoNegativeStackIDQueried ==
    \A n \in 1..Len(queried) : queried[n] >= 0

\* C14. Addr2FuncName never returns the name of a symbol whose value is 0:
\* its result is the unknown sentinel or the name of a symbol of the file
\* with a non-zero value.
NeverZeroValuedSymbol ==
    spc = "resolved" =>
        \/ query.funcName = notfound
        \/ \E k \in 1..Len(elf.Symbols) :
              elf.Symbols[k].Name = query.funcName /\ elf.Symbols[k].Value # 0

\* C15. Every Location with a known mapping is attributed to the first
\* mapping of the list that owns its address, a mapping owning the
\* addresses Start <= address < Limit.
FirstOwningMapping ==
    \A a \in 1..Len(prof.Location) :
        prof.Location[a].Mapping # 0 =>
            LET addr == prof.Location[a].Address
                owners == {i \in 1..Len(mmIn) : mmIn[i].Start <= addr /\ addr < mmIn[i].Limit}
            IN /\ prof.Location[a].Mapping \in owners
               /\ \A i \in owners : prof.Location[a].Mapping <= i

====
